---- MODULE Spec2Model ----
(***************************************************************************)
(* Model of gcal-sum (src/main.go): the OAuth2 token lifecycle of          *)
(* getClient / getTokenFromWeb / tokenFromFile / saveToken, and the        *)
(* construction of the event-query time window in main.                    *)
(*                                                                         *)
(* Three specifications share the variables:                               *)
(*   Spec        the token lifecycle of one process run (getClient),       *)
(*   SpecWindow  main's date handling, lines 225-264, over bounded flags,  *)
(*   SpecAgg     main's aggregation loop and report, lines 270-325.        *)
(***************************************************************************)
EXTENDS Integers, Sequences, FiniteSets, TLC

\* ------------------------------------------------------------------ bounds
\* Clock values and stored expiries range over 0..MaxTime.
MaxTime == 2
\* Number of redirect requests the browser side may send to the listener.
MaxRequests == 2
\* Years of the -month / -start / -end flags.
MinYear == 2023
MaxYear == 2024

VARIABLES
    \* ---- token lifecycle (Spec)
    now,            \* time.Now() as read at main.go:105
    file,           \* content of token.json
    file0,          \* content of token.json when the process started
    tok,            \* getClient's local tok
    loadErr,        \* err returned by tokenFromFile
    pc,             \* position of the main goroutine
    fatalAt,        \* the log.Fatalf that ended the process, "" if none
    client,         \* token bound to the *http.Client getClient returned
    refreshResult,  \* outcome of tokenSource.Token(): "none", "ok", "failed"
    refreshCalls,   \* calls of tokenSource.Token()
    webCalls,       \* calls of getTokenFromWeb
    exchangeCalls,  \* calls of config.Exchange
    exchangeResult, \* outcome of config.Exchange: "none", "ok", "failed"
    saveCalls,      \* calls of saveToken
    handlers,       \* registrations of "/" on http.DefaultServeMux
    server,         \* the temporary http.Server
    reqs,           \* redirect requests and their handler goroutines
    authCode,       \* getTokenFromWeb's local authCode
    exchangedCode,  \* the code handed to config.Exchange
    listens,        \* attempts of ListenAndServe to bind :8080
    \* ---- time window (SpecWindow)
    monthStr, startDateStr, endDateStr,   \* the flags
    wpc,            \* position of main in lines 225-264
    startDate, endDate, searchEndDate,    \* time.Time values
    timeMin, timeMax,                     \* RFC3339 strings sent to Events.List
    \* ---- aggregation (SpecAgg)
    eventName,      \* the -name flag
    items,          \* events.Items as returned by Events.List
    idx,            \* position of the range loop of line 273
    totalDuration,  \* totalDuration, in minutes
    matchedEvents,  \* matchedEvents
    warnings,       \* messages printed with log.Printf by the loop
    apc,            \* position of main in lines 270-325
    report          \* what main printed on standard output from line 300 on

authVars == <<now, file, file0, tok, loadErr, pc, fatalAt, client,
              refreshResult, refreshCalls, webCalls, exchangeCalls,
              exchangeResult, saveCalls,
              handlers, server, reqs, authCode, exchangedCode, listens>>
winVars  == <<monthStr, startDateStr, endDateStr, wpc,
              startDate, endDate, searchEndDate, timeMin, timeMax>>
aggVars  == <<eventName, items, idx, totalDuration, matchedEvents, warnings,
              apc, report>>
vars     == <<authVars, winVars, aggVars>>

\* =====================================================================
\* Token lifecycle
\* =====================================================================

\* oauth2.Token: the fields the program reads (AccessToken, RefreshToken, Expiry).
NoTok == [access |-> "", refresh |-> "", expiry |-> 0]
StoredTokens == [access : {"stored"}, refresh : {"", "r"}, expiry : 0..MaxTime]

\* token.json: absent, not decodable as a token, or a token record.
FileAbsent   == [kind |-> "absent",  tok |-> NoTok]
FileGarbage  == [kind |-> "garbage", tok |-> NoTok]
FileOf(t)    == [kind |-> "token",   tok |-> t]
InitialFiles == {FileAbsent, FileGarbage} \cup {FileOf(t) : t \in StoredTokens}

\* Values of the "code" query parameter of a redirect request ("" = absent).
Codes == {"", "c1", "c2"}
Requests == 1..MaxRequests
NoReq == [st |-> "none", code |-> "", resp |-> ""]

\* A flag value: not given (""), text that is no date at all, a string of
\* the shape YYYY-MM, or a string of the shape YYYY-MM-DD.  The numeric
\* fields are the digits as written; they need not name a real date.
EmptyStr == [kind |-> "empty", y |-> 0, m |-> 0, d |-> 0]
TextStr  == [kind |-> "text",  y |-> 0, m |-> 0, d |-> 0]
\* A formatted instant that has not been produced yet.
NoStamp  == [y |-> 0, m |-> 0, d |-> 0, h |-> 0, off |-> 0]

\* Time window variables are idle in Spec.
WinIdle ==
    /\ monthStr = EmptyStr /\ startDateStr = EmptyStr /\ endDateStr = EmptyStr
    /\ wpc = "idle"
    /\ startDate = 0 /\ endDate = 0 /\ searchEndDate = 0
    /\ timeMin = NoStamp /\ timeMax = NoStamp

\* Aggregation variables are idle in Spec and SpecWindow.
NoReport == [kind |-> "none", hours |-> 0, minutes |-> 0, lines |-> <<>>]
AggIdle ==
    /\ eventName = <<>>
    /\ items = <<>>
    /\ idx = 0
    /\ totalDuration = 0
    /\ matchedEvents = <<>>
    /\ warnings = <<>>
    /\ apc = "idle"
    /\ report = NoReport

Init ==
    /\ now \in 0..MaxTime
    /\ file \in InitialFiles
    /\ file0 = file
    /\ tok = NoTok
    /\ loadErr = FALSE
    /\ pc = "load"
    /\ fatalAt = ""
    /\ client = NoTok
    /\ refreshResult = "none"
    /\ exchangeResult = "none"
    /\ refreshCalls = 0 /\ webCalls = 0 /\ exchangeCalls = 0 /\ saveCalls = 0
    /\ handlers = 0
    /\ server = "none"
    /\ reqs = [i \in Requests |-> NoReq]
    /\ authCode = ""
    /\ exchangedCode = ""
    /\ listens = 0
    /\ WinIdle
    /\ AggIdle

\* The process is alive: log.Fatalf ends every goroutine.
Alive == pc # "fatal"

webUnchanged == <<handlers, server, reqs, authCode, exchangedCode, webCalls,
                  exchangeCalls, exchangeResult, listens>>

\* tokenFromFile (86-95) and the branch on its error in getClient (99-103).
LoadToken ==
    /\ pc = "load"
    /\ IF file.kind = "token"
         THEN /\ tok' = file.tok
              /\ loadErr' = FALSE
              /\ pc' = "check"
         ELSE /\ tok' = NoTok
              /\ loadErr' = TRUE
              /\ pc' = "web_handle"
    /\ UNCHANGED <<now, file, file0, fatalAt, client, refreshResult,
                   refreshCalls, saveCalls, webUnchanged, winVars, aggVars>>

\* getClient 105-109, 120-122: expiry test, then the refresh-credential test.
CheckExpiryMutSkipRefresh ==
    /\ pc = "check"
    /\ pc' = IF tok.expiry < now THEN "web_handle" ELSE "client"
    /\ UNCHANGED <<now, file, file0, tok, loadErr, fatalAt, client, refreshResult,
                   refreshCalls, saveCalls, webUnchanged, winVars, aggVars>>

CheckExpiryMutAlwaysRefresh ==
    /\ pc = "check"
    /\ pc' = IF tok.expiry < now THEN "refresh" ELSE "client"
    /\ UNCHANGED <<now, file, file0, tok, loadErr, fatalAt, client, refreshResult,
                   refreshCalls, saveCalls, webUnchanged, winVars, aggVars>>

CheckExpiryMutInverted ==
    /\ pc = "check"
    /\ pc' = IF tok.expiry > now
               THEN (IF tok.refresh # "" THEN "refresh" ELSE "web_handle")
               ELSE "client"
    /\ UNCHANGED <<now, file, file0, tok, loadErr, fatalAt, client, refreshResult,
                   refreshCalls, saveCalls, webUnchanged, winVars, aggVars>>

CheckExpiry ==
    /\ pc = "check"
    /\ pc' = IF tok.expiry < now
               THEN (IF tok.refresh # "" THEN "refresh" ELSE "web_handle")
               ELSE "client"
    /\ UNCHANGED <<now, file, file0, tok, loadErr, fatalAt, client, refreshResult,
                   refreshCalls, saveCalls, webUnchanged, winVars, aggVars>>

\* getClient 110-118: tokenSource.Token() either yields a new token or fails;
\* on failure the message is printed and getTokenFromWeb is entered.
Refresh ==
    /\ pc = "refresh"
    /\ refreshCalls' = refreshCalls + 1
    /\ \/ /\ refreshResult' = "ok"
          /\ tok' = [access |-> "refreshed", refresh |-> tok.refresh, expiry |-> now + 1]
          /\ pc' = "save"
       \/ /\ refreshResult' = "failed"
          /\ tok' = tok
          /\ pc' = "web_handle"
    /\ UNCHANGED <<now, file, file0, loadErr, fatalAt, client, saveCalls,
                   webUnchanged, winVars, aggVars>>

\* getTokenFromWeb 40-52: make the channel, register the handler for "/".
RegisterHandler ==
    /\ pc = "web_handle"
    /\ webCalls' = webCalls + 1
    /\ handlers' = handlers + 1
    /\ authCode' = ""
    /\ pc' = "web_serve"
    /\ UNCHANGED <<now, file, file0, tok, loadErr, fatalAt, client, refreshResult,
                   refreshCalls, saveCalls, server, reqs, exchangedCode,
                   exchangeCalls, exchangeResult, listens, winVars, aggVars>>

\* getTokenFromWeb 55-60: build the server and start the serving goroutine.
StartServer ==
    /\ pc = "web_serve"
    /\ server' = "starting"
    /\ pc' = "web_url"
    /\ UNCHANGED <<now, file, file0, tok, loadErr, fatalAt, client, refreshResult,
                   refreshCalls, saveCalls, handlers, reqs, authCode, exchangedCode,
                   webCalls, exchangeCalls, exchangeResult, listens, winVars, aggVars>>

\* The goroutine of 56-60: ListenAndServe binds :8080 or fails; a failure
\* is printed with log.Printf and the goroutine ends.
ListenAndServe ==
    /\ Alive
    /\ server = "starting"
    /\ \/ server' = "listening"
       \/ server' = "failed"
    /\ listens' = listens + 1
    /\ UNCHANGED <<now, file, file0, tok, loadErr, pc, fatalAt, client, refreshResult,
                   refreshCalls, saveCalls, handlers, reqs, authCode, exchangedCode,
                   webCalls, exchangeCalls, exchangeResult, winVars, aggVars>>

\* getTokenFromWeb 64-67: print the authorization URL.
PrintAuthURL ==
    /\ pc = "web_url"
    /\ pc' = "web_recv"
    /\ UNCHANGED <<now, file, file0, tok, loadErr, fatalAt, client, refreshResult,
                   refreshCalls, saveCalls, webUnchanged, winVars, aggVars>>

\* A redirect request reaches the listener; its handler goroutine starts.
RequestArrives(i, c) ==
    /\ Alive
    /\ server = "listening"
    /\ reqs[i].st = "none"
    /\ reqs' = [reqs EXCEPT ![i] = [st |-> "handling", code |-> c, resp |-> ""]]
    /\ UNCHANGED <<now, file, file0, tok, loadErr, pc, fatalAt, client, refreshResult,
                   refreshCalls, saveCalls, handlers, server, authCode, exchangedCode,
                   webCalls, exchangeCalls, exchangeResult, listens, winVars, aggVars>>

HandleRequestMutSendsEmpty(i) ==
    /\ Alive
    /\ reqs[i].st = "handling"
    /\ reqs' = [reqs EXCEPT ![i].st = "sending"]
    /\ UNCHANGED <<now, file, file0, tok, loadErr, pc, fatalAt, client, refreshResult,
                   refreshCalls, saveCalls, handlers, server, authCode, exchangedCode,
                   webCalls, exchangeCalls, exchangeResult, listens, winVars, aggVars>>

\* Handler 45-46, 49-51: read the code; without a code answer "no code",
\* with a code go on to the channel send of line 47.
HandleRequest(i) ==
    /\ Alive
    /\ reqs[i].st = "handling"
    /\ IF reqs[i].code # ""
         THEN reqs' = [reqs EXCEPT ![i].st = "sending"]
         ELSE reqs' = [reqs EXCEPT ![i].st = "done", ![i].resp = "nocode"]
    /\ UNCHANGED <<now, file, file0, tok, loadErr, pc, fatalAt, client, refreshResult,
                   refreshCalls, saveCalls, handlers, server, authCode, exchangedCode,
                   webCalls, exchangeCalls, exchangeResult, listens, winVars, aggVars>>

\* Line 47 meets line 70: codeCh is unbuffered (make(chan string), line 41),
\* so the handler's send and main's receive are one rendezvous.
ReceiveCode(i) ==
    /\ pc = "web_recv"
    /\ reqs[i].st = "sending"
    /\ authCode' = reqs[i].code
    /\ reqs' = [reqs EXCEPT ![i].st = "sent"]
    /\ pc' = "web_shutdown"
    /\ UNCHANGED <<now, file, file0, tok, loadErr, fatalAt, client, refreshResult,
                   refreshCalls, saveCalls, handlers, server, exchangedCode,
                   webCalls, exchangeCalls, exchangeResult, listens, winVars, aggVars>>

\* Handler 48: after the send returned, write the completion message.
HandlerRespond(i) ==
    /\ Alive
    /\ reqs[i].st = "sent"
    /\ reqs' = [reqs EXCEPT ![i].st = "done", ![i].resp = "complete"]
    /\ UNCHANGED <<now, file, file0, tok, loadErr, pc, fatalAt, client, refreshResult,
                   refreshCalls, saveCalls, handlers, server, authCode, exchangedCode,
                   webCalls, exchangeCalls, exchangeResult, listens, winVars, aggVars>>

ShutdownMutListenerLeftOpen ==
    /\ pc = "web_shutdown"
    /\ server' = server
    /\ pc' = "web_exchange"
    /\ UNCHANGED <<now, file, file0, tok, loadErr, fatalAt, client, refreshResult,
                   refreshCalls, saveCalls, handlers, reqs, authCode, exchangedCode,
                   webCalls, exchangeCalls, exchangeResult, listens, winVars, aggVars>>

\* getTokenFromWeb 73-75: server.Shutdown closes the listener and waits at
\* most 5 seconds for the open connections; its result is ignored.
Shutdown ==
    /\ pc = "web_shutdown"
    /\ server' = IF server = "listening" THEN "closed" ELSE server
    /\ pc' = "web_exchange"
    /\ UNCHANGED <<now, file, file0, tok, loadErr, fatalAt, client, refreshResult,
                   refreshCalls, saveCalls, handlers, reqs, authCode, exchangedCode,
                   webCalls, exchangeCalls, exchangeResult, listens, winVars, aggVars>>

\* getTokenFromWeb 78-82: exchange the code; a failure is log.Fatalf.
ExchangeMutNotFatal ==
    /\ pc = "web_exchange"
    /\ exchangeCalls' = exchangeCalls + 1
    /\ exchangedCode' = authCode
    /\ \/ /\ tok' = [access |-> "web", refresh |-> "r2", expiry |-> now + 1]
          /\ exchangeResult' = "ok"
          /\ pc' = "save"
       \/ /\ tok' = NoTok
          /\ exchangeResult' = "failed"
          /\ pc' = "save"
    /\ fatalAt' = fatalAt
    /\ UNCHANGED <<now, file, file0, loadErr, client, refreshResult,
                   refreshCalls, saveCalls, handlers, server, reqs, authCode,
                   webCalls, listens, winVars, aggVars>>

ExchangeMutRetry ==
    /\ pc = "web_exchange"
    /\ exchangeCalls' = exchangeCalls + 1
    /\ exchangedCode' = authCode
    /\ \/ /\ tok' = [access |-> "web", refresh |-> "r2", expiry |-> now + 1]
          /\ exchangeResult' = "ok"
          /\ pc' = "save"
       \/ /\ tok' = tok
          /\ exchangeResult' = "failed"
          /\ pc' = "web_handle"
    /\ fatalAt' = fatalAt
    /\ UNCHANGED <<now, file, file0, loadErr, client, refreshResult,
                   refreshCalls, saveCalls, handlers, server, reqs, authCode,
                   webCalls, listens, winVars, aggVars>>

Exchange ==
    /\ pc = "web_exchange"
    /\ exchangeCalls' = exchangeCalls + 1
    /\ exchangedCode' = authCode
    /\ \/ /\ tok' = [access |-> "web", refresh |-> "r2", expiry |-> now + 1]
          /\ exchangeResult' = "ok"
          /\ pc' = "save"
          /\ fatalAt' = fatalAt
       \/ /\ tok' = tok
          /\ exchangeResult' = "failed"
          /\ pc' = "fatal"
          /\ fatalAt' = "exchange"
    /\ UNCHANGED <<now, file, file0, loadErr, client, refreshResult,
                   refreshCalls, saveCalls, handlers, server, reqs, authCode,
                   webCalls, listens, winVars, aggVars>>

\* saveToken (131-139), called at 102, 119 and 123.  OpenFile with O_TRUNC
\* may fail (log.Fatalf); the result of Encode (line 138) is discarded, so a
\* failed write leaves the truncated file behind and saveToken returns.
SaveToken ==
    /\ pc = "save"
    /\ saveCalls' = saveCalls + 1
    /\ \/ /\ file' = FileOf(tok)
          /\ pc' = "client"
          /\ fatalAt' = fatalAt
       \/ /\ file' = FileGarbage
          /\ pc' = "client"
          /\ fatalAt' = fatalAt
       \/ /\ file' = file
          /\ pc' = "fatal"
          /\ fatalAt' = "saveToken"
    /\ UNCHANGED <<now, file0, tok, loadErr, client, refreshResult,
                   refreshCalls, webUnchanged, winVars, aggVars>>

\* getClient 127: bind the token to the client and return.
BuildClient ==
    /\ pc = "client"
    /\ client' = tok
    /\ pc' = "returned"
    /\ UNCHANGED <<now, file, file0, tok, loadErr, fatalAt, refreshResult,
                   refreshCalls, saveCalls, webUnchanged, winVars, aggVars>>

Next ==
    \/ LoadToken
    \/ CheckExpiry
    \/ Refresh
    \/ RegisterHandler
    \/ StartServer
    \/ ListenAndServe
    \/ PrintAuthURL
    \/ \E i \in Requests, c \in Codes : RequestArrives(i, c)
    \/ \E i \in Requests : HandleRequest(i)
    \/ \E i \in Requests : ReceiveCode(i)
    \/ \E i \in Requests : HandlerRespond(i)
    \/ Shutdown
    \/ Exchange
    \/ SaveToken
    \/ BuildClient

Spec == Init /\ [][Next]_vars

\* =====================================================================
\* Time window: main 225-264 and getMonthDates
\* =====================================================================

\* Offset of Asia/Tokyo from UTC in hours (time.LoadLocation, line 220); the
\* zone has had no other offset since 1951.
JSTOffset == 9

Years == MinYear..MaxYear
\* Month and day digits of the flags, with values on both sides of the
\* valid ranges.
MonthDigits == 0..13
DayDigits   == {0, 1, 28, 29, 30, 31, 32}
MonthStrs == [kind : {"ym"},  y : Years, m : MonthDigits, d : {0}]
DateStrs  == [kind : {"ymd"}, y : Years, m : MonthDigits, d : DayDigits]

\* ---- package time, as far as main uses it.  A time.Time is the number of
\* hours since 1970-01-01T00:00Z; its location is always Asia/Tokyo.
isLeap(y) == (y % 4 = 0) /\ ((y % 100 # 0) \/ (y % 400 = 0))

daysBefore == <<0, 31, 59, 90, 120, 151, 181, 212, 243, 273, 304, 334, 365>>

daysIn(m, y) ==
    IF m = 2 /\ isLeap(y) THEN 29 ELSE daysBefore[m + 1] - daysBefore[m]

\* Leap years in 1..n.
leapsUpTo(n) == (n \div 4) - (n \div 100) + (n \div 400)

\* Days from 1970-01-01 to January 1st of year y.
daysSinceEpoch(y) == 365 * (y - 1970) + leapsUpTo(y - 1) - leapsUpTo(1969)

\* time.Date(y, m, d, h, 0, 0, 0, jst): out-of-range months and days are
\* normalised, the wall clock is read in the zone.
Date(y, m, d, h) ==
    LET yy == y + ((m - 1) \div 12)
        mm == ((m - 1) % 12) + 1
        n  == daysSinceEpoch(yy) + daysBefore[mm]
              + (IF isLeap(yy) /\ mm >= 3 THEN 1 ELSE 0) + (d - 1)
    IN  n * 24 + h - JSTOffset

RECURSIVE yearOf(_, _)
yearOf(n, y) ==
    IF daysSinceEpoch(y) > n THEN yearOf(n, y - 1)
    ELSE IF daysSinceEpoch(y + 1) <= n THEN yearOf(n, y + 1)
    ELSE y

RECURSIVE monthOf(_, _, _)
monthOf(yday, y, m) ==
    IF yday < daysIn(m, y) THEN [m |-> m, d |-> yday + 1]
    ELSE monthOf(yday - daysIn(m, y), y, m + 1)

\* t.Date() and t.Clock() in the zone.
Civil(t) ==
    LET wall == t + JSTOffset
        n    == wall \div 24
        y    == yearOf(n, 1970 + (n \div 365))
        md   == monthOf(n - daysSinceEpoch(y), y, 1)
    IN  [y |-> y, m |-> md.m, d |-> md.d, h |-> wall % 24]

\* t.AddDate(years, months, days)
AddDate(t, years, months, days) ==
    LET c == Civil(t)
    IN  Date(c.y + years, c.m + months, c.d + days, c.h)

\* t.Format(time.RFC3339): date, hour and zone offset of the string.
FormatRFC3339(t) ==
    LET c == Civil(t)
    IN  [y |-> c.y, m |-> c.m, d |-> c.d, h |-> c.h, off |-> JSTOffset]

\* time.ParseInLocation("2006-01", s, jst)
ParseMonth(s) ==
    IF s.kind = "ym" /\ s.m \in 1..12
      THEN [err |-> FALSE, t |-> Date(s.y, s.m, 1, 0)]
      ELSE [err |-> TRUE,  t |-> 0]

\* time.ParseInLocation("2006-01-02", s, jst)
ParseDay(s) ==
    IF s.kind = "ymd" /\ s.m \in 1..12 /\ s.d >= 1 /\ s.d <= daysIn(s.m, s.y)
      THEN [err |-> FALSE, t |-> Date(s.y, s.m, s.d, 0)]
      ELSE [err |-> TRUE,  t |-> 0]

\* getMonthDates (155-169)
getMonthDatesMutNoStepBack(s) ==
    LET p == ParseMonth(s)
    IN  IF p.err THEN [err |-> TRUE, startDate |-> 0, endDate |-> 0]
        ELSE [err |-> FALSE, startDate |-> p.t,
              endDate |-> AddDate(p.t, 0, 1, 0)]

getMonthDates(s) ==
    LET p == ParseMonth(s)
    IN  IF p.err THEN [err |-> TRUE, startDate |-> 0, endDate |-> 0]
        ELSE [err |-> FALSE, startDate |-> p.t,
              endDate |-> AddDate(AddDate(p.t, 0, 1, 0), 0, 0, -1)]

\* The token lifecycle is over in SpecWindow: getClient has returned.
AuthDone ==
    /\ now = 0
    /\ file = FileOf([access |-> "stored", refresh |-> "r", expiry |-> 1])
    /\ file0 = file
    /\ tok = file.tok
    /\ loadErr = FALSE
    /\ pc = "returned"
    /\ fatalAt = ""
    /\ client = file.tok
    /\ refreshResult = "none"
    /\ exchangeResult = "none"
    /\ refreshCalls = 0 /\ webCalls = 0 /\ exchangeCalls = 0 /\ saveCalls = 0
    /\ handlers = 0
    /\ server = "none"
    /\ reqs = [i \in Requests |-> NoReq]
    /\ authCode = ""
    /\ exchangedCode = ""
    /\ listens = 0

\* Flags given together with -month (they are ignored then).
IgnoredDates == {EmptyStr, [kind |-> "ymd", y |-> MinYear, m |-> 1, d |-> 1]}

InitWindow ==
    /\ AuthDone
    /\ AggIdle
    /\ \/ /\ monthStr = EmptyStr
          /\ startDateStr \in {EmptyStr, TextStr} \cup DateStrs
          /\ endDateStr \in {EmptyStr, TextStr} \cup DateStrs
       \/ /\ monthStr \in {TextStr} \cup MonthStrs
          /\ startDateStr \in IgnoredDates
          /\ endDateStr \in IgnoredDates
    /\ wpc = "parse"
    /\ startDate = 0 /\ endDate = 0 /\ searchEndDate = 0
    /\ timeMin = NoStamp /\ timeMax = NoStamp

\* main 228-232: -month given.
MonthGiven ==
    /\ wpc = "parse"
    /\ monthStr # EmptyStr
    /\ LET r == getMonthDates(monthStr)
       IN  IF r.err
             THEN /\ wpc' = "fatal_month"
                  /\ UNCHANGED <<startDate, endDate>>
             ELSE /\ startDate' = r.startDate
                  /\ endDate' = r.endDate
                  /\ wpc' = "extend"
    /\ UNCHANGED <<monthStr, startDateStr, endDateStr, searchEndDate,
                   timeMin, timeMax, authVars, aggVars>>

\* main 233-243: -start and -end given, no -month.
StartEndGiven ==
    /\ wpc = "parse"
    /\ monthStr = EmptyStr
    /\ startDateStr # EmptyStr /\ endDateStr # EmptyStr
    /\ LET ps == ParseDay(startDateStr)
           pe == ParseDay(endDateStr)
       IN  IF ps.err
             THEN /\ wpc' = "fatal_start"
                  /\ UNCHANGED <<startDate, endDate>>
             ELSE IF pe.err
               THEN /\ wpc' = "fatal_end"
                    /\ startDate' = ps.t
                    /\ UNCHANGED endDate
               ELSE /\ startDate' = ps.t
                    /\ endDate' = pe.t
                    /\ wpc' = "extend"
    /\ UNCHANGED <<monthStr, startDateStr, endDateStr, searchEndDate,
                   timeMin, timeMax, authVars, aggVars>>

\* main 244-250: neither form given, usage message and os.Exit(1).
NoRangeGiven ==
    /\ wpc = "parse"
    /\ monthStr = EmptyStr
    /\ startDateStr = EmptyStr \/ endDateStr = EmptyStr
    /\ wpc' = "exit1"
    /\ UNCHANGED <<monthStr, startDateStr, endDateStr, startDate, endDate,
                   searchEndDate, timeMin, timeMax, authVars, aggVars>>

\* main 253: one day is added to endDate.
ExtendEndDateMutNoExtraDay ==
    /\ wpc = "extend"
    /\ searchEndDate' = endDate
    /\ wpc' = "query"
    /\ UNCHANGED <<monthStr, startDateStr, endDateStr, startDate, endDate,
                   timeMin, timeMax, authVars, aggVars>>

ExtendEndDate ==
    /\ wpc = "extend"
    /\ searchEndDate' = AddDate(endDate, 0, 0, 1)
    /\ wpc' = "query"
    /\ UNCHANGED <<monthStr, startDateStr, endDateStr, startDate, endDate,
                   timeMin, timeMax, authVars, aggVars>>

\* main 259-264: the event query with TimeMin and TimeMax.
ListEvents ==
    /\ wpc = "query"
    /\ timeMin' = FormatRFC3339(startDate)
    /\ timeMax' = FormatRFC3339(searchEndDate)
    /\ wpc' = "queried"
    /\ UNCHANGED <<monthStr, startDateStr, endDateStr, startDate, endDate,
                   searchEndDate, authVars, aggVars>>

NextWindow ==
    \/ MonthGiven
    \/ StartEndGiven
    \/ NoRangeGiven
    \/ ExtendEndDate
    \/ ListEvents

SpecWindow == InitWindow /\ [][NextWindow]_vars

\* =====================================================================
\* Aggregation: main 270-325
\* =====================================================================

\* Number of events in the answer of Events.List.
MaxEvents == 2

\* Event names are sequences of letters; the -name flag is not empty
\* (main 212-217).
EventNames  == {<<"m">>, <<"M">>, <<"m", "p">>}
TargetNames == {<<"M">>, <<"m", "P">>}

\* A DateTime string of the API: "" (all-day events carry a Date instead),
\* text that is no timestamp, or an RFC3339 timestamp given by its wall
\* clock and zone offset, both in minutes.
EmptyDT == [kind |-> "empty", wall |-> 0, off |-> 0]
BadDT   == [kind |-> "text",  wall |-> 0, off |-> 0]
RFC(w, o) == [kind |-> "rfc", wall |-> w, off |-> o]
StartDTs == {BadDT, RFC(540, 540), RFC(30, 0)}
EndDTs   == {BadDT, RFC(555, 540), RFC(60, 0)}

\* calendar.Event: Summary, Start.DateTime, End.DateTime.
AllDayEvents == [summary : EventNames, start : {EmptyDT}, end : {EmptyDT}]
TimedEvents  == [summary : EventNames, start : StartDTs, end : EndDTs]
Events == AllDayEvents \cup TimedEvents

\* time.Parse(time.RFC3339, s): the instant in minutes.
ParseRFC3339(s) ==
    IF s.kind = "rfc" THEN [err |-> FALSE, t |-> s.wall - s.off]
                      ELSE [err |-> TRUE,  t |-> 0]

\* The query orders by start time (OrderBy("startTime"), line 263).
OrderedByStart(seq) ==
    \A i, j \in 1..Len(seq) :
        (i < j /\ seq[i].start.kind = "rfc" /\ seq[j].start.kind = "rfc")
            => ParseRFC3339(seq[i].start).t <= ParseRFC3339(seq[j].start).t

EventSeqs == UNION {[1..n -> Events] : n \in 0..MaxEvents}

\* strings.EqualFold (line 280): rune by rune, equal or equal after folding.
toLower(c) == CASE c = "M" -> "m" [] c = "P" -> "p" [] OTHER -> c

EqualFoldMutCaseSensitive(a, b) == a = b

EqualFold(a, b) ==
    /\ Len(a) = Len(b)
    /\ \A i \in 1..Len(a) : a[i] = b[i] \/ toLower(a[i]) = toLower(b[i])

\* int(d.Hours()) and int(d.Minutes()) % 60 of lines 300 and 322-323:
\* conversion and remainder truncate toward zero.
TruncDiv(a, b) == IF a >= 0 THEN a \div b ELSE -((-a) \div b)
TruncRem(a, b) == a - b * TruncDiv(a, b)

InitAgg ==
    /\ AuthDone
    /\ WinIdle
    /\ eventName \in TargetNames
    /\ items \in {q \in EventSeqs : OrderedByStart(q)}
    /\ idx = 0
    /\ totalDuration = 0
    /\ matchedEvents = <<>>
    /\ warnings = <<>>
    /\ apc = "loop"
    /\ report = NoReport

\* One iteration of the loop of lines 273-297.
LoopStepMutLenient ==
    /\ apc = "loop"
    /\ idx < Len(items)
    /\ idx' = idx + 1
    /\ LET item == items[idx + 1]
           ps   == ParseRFC3339(item.start)
           pe   == ParseRFC3339(item.end)
       IN  IF EqualFold(item.summary, eventName)
             THEN /\ totalDuration' = totalDuration + (pe.t - ps.t)
                  /\ matchedEvents' = Append(matchedEvents, item)
             ELSE UNCHANGED <<totalDuration, matchedEvents>>
    /\ UNCHANGED <<eventName, items, warnings, apc, report, authVars, winVars>>

LoopStepMutBreak ==
    /\ apc = "loop"
    /\ idx < Len(items)
    /\ LET item == items[idx + 1]
           ps   == ParseRFC3339(item.start)
           pe   == ParseRFC3339(item.end)
       IN  IF item.start = EmptyDT
             THEN /\ idx' = idx + 1
                  /\ UNCHANGED <<totalDuration, matchedEvents, warnings>>
           ELSE IF ~EqualFold(item.summary, eventName)
             THEN /\ idx' = idx + 1
                  /\ UNCHANGED <<totalDuration, matchedEvents, warnings>>
           ELSE IF ps.err
             THEN /\ idx' = Len(items)
                  /\ warnings' = Append(warnings, "start")
                  /\ UNCHANGED <<totalDuration, matchedEvents>>
           ELSE IF pe.err
             THEN /\ idx' = Len(items)
                  /\ warnings' = Append(warnings, "end")
                  /\ UNCHANGED <<totalDuration, matchedEvents>>
           ELSE /\ idx' = idx + 1
                /\ totalDuration' = totalDuration + (pe.t - ps.t)
                /\ matchedEvents' = Append(matchedEvents, item)
                /\ UNCHANGED warnings
    /\ UNCHANGED <<eventName, items, apc, report, authVars, winVars>>

LoopStepMutPrepend ==
    /\ apc = "loop"
    /\ idx < Len(items)
    /\ idx' = idx + 1
    /\ LET item == items[idx + 1]
           ps   == ParseRFC3339(item.start)
           pe   == ParseRFC3339(item.end)
       IN  IF item.start = EmptyDT
             THEN UNCHANGED <<totalDuration, matchedEvents, warnings>>
           ELSE IF ~EqualFold(item.summary, eventName)
             THEN UNCHANGED <<totalDuration, matchedEvents, warnings>>
           ELSE IF ps.err
             THEN /\ warnings' = Append(warnings, "start")
                  /\ UNCHANGED <<totalDuration, matchedEvents>>
           ELSE IF pe.err
             THEN /\ warnings' = Append(warnings, "end")
                  /\ UNCHANGED <<totalDuration, matchedEvents>>
           ELSE /\ totalDuration' = totalDuration + (pe.t - ps.t)
                /\ matchedEvents' = <<item>> \o matchedEvents
                /\ UNCHANGED warnings
    /\ UNCHANGED <<eventName, items, apc, report, authVars, winVars>>

LoopStep ==
    /\ apc = "loop"
    /\ idx < Len(items)
    /\ idx' = idx + 1
    /\ LET item == items[idx + 1]
           ps   == ParseRFC3339(item.start)
           pe   == ParseRFC3339(item.end)
       IN  IF item.start = EmptyDT
             THEN UNCHANGED <<totalDuration, matchedEvents, warnings>>
           ELSE IF ~EqualFold(item.summary, eventName)
             THEN UNCHANGED <<totalDuration, matchedEvents, warnings>>
           ELSE IF ps.err
             THEN /\ warnings' = Append(warnings, "start")
                  /\ UNCHANGED <<totalDuration, matchedEvents>>
           ELSE IF pe.err
             THEN /\ warnings' = Append(warnings, "end")
                  /\ UNCHANGED <<totalDuration, matchedEvents>>
           ELSE /\ totalDuration' = totalDuration + (pe.t - ps.t)
                /\ matchedEvents' = Append(matchedEvents, item)
                /\ UNCHANGED warnings
    /\ UNCHANGED <<eventName, items, apc, report, authVars, winVars>>

\* Line 300, after the loop: print the total as hours and minutes.
PrintTotal ==
    /\ apc = "loop"
    /\ idx = Len(items)
    /\ report' = [report EXCEPT !.kind = "total",
                                !.hours = TruncDiv(totalDuration, 60),
                                !.minutes = TruncRem(totalDuration, 60)]
    /\ apc' = "report"
    /\ UNCHANGED <<eventName, items, idx, totalDuration, matchedEvents,
                   warnings, authVars, winVars>>

\* Lines 302-305: nothing matched, print the message and return.
NoMatchesMutNoCheck ==
    /\ apc = "report"
    /\ matchedEvents = <<>>
    /\ report' = [report EXCEPT !.kind = "list"]
    /\ apc' = "exit0"
    /\ UNCHANGED <<eventName, items, idx, totalDuration, matchedEvents,
                   warnings, authVars, winVars>>

NoMatches ==
    /\ apc = "report"
    /\ Len(matchedEvents) = 0
    /\ report' = [report EXCEPT !.kind = "nomatch"]
    /\ apc' = "exit0"
    /\ UNCHANGED <<eventName, items, idx, totalDuration, matchedEvents,
                   warnings, authVars, winVars>>

\* Lines 307-324: print one line per matched event, then main returns.
PrintMatched ==
    /\ apc = "report"
    /\ Len(matchedEvents) # 0
    /\ report' = [report EXCEPT
          !.kind = "list",
          !.lines = [i \in 1..Len(matchedEvents) |->
              LET e == matchedEvents[i]
                  d == ParseRFC3339(e.end).t - ParseRFC3339(e.start).t
              IN  [summary |-> e.summary, hours |-> TruncDiv(d, 60),
                   minutes |-> TruncRem(d, 60)]]]
    /\ apc' = "exit0"
    /\ UNCHANGED <<eventName, items, idx, totalDuration, matchedEvents,
                   warnings, authVars, winVars>>

NextAgg ==
    \/ LoopStep
    \/ PrintTotal
    \/ NoMatches
    \/ PrintMatched

SpecAgg == InitAgg /\ [][NextAgg]_vars

\* =====================================================================
\* Properties of the token lifecycle (checked under Spec)
\* =====================================================================

\* The cases of the token that tokenFromFile loaded.
Loaded == file0.kind = "token"
LoadedExpiredWithRefresh == Loaded /\ file0.tok.expiry < now /\ file0.tok.refresh # ""
LoadedExpiredNoRefresh   == Loaded /\ file0.tok.expiry < now /\ file0.tok.refresh = ""
LoadedUnexpired          == Loaded /\ file0.tok.expiry > now

\* Main is inside getTokenFromWeb, or about to enter it.
InWeb == pc \in {"web_handle", "web_serve", "web_url", "web_recv",
                 "web_shutdown", "web_exchange"}
AuthFlowStarted == InWeb \/ webCalls > 0

\* C1: with an expired token that carries a refresh credential, the refresh
\* is attempted once getClient is past its tests, and AuthFlow is entered
\* only in states where that refresh attempt has finished and failed.
C1_RefreshBeforeAuthFlow ==
    LoadedExpiredWithRefresh =>
        /\ pc \notin {"load", "check", "refresh"} => refreshCalls = 1
        /\ AuthFlowStarted => refreshResult = "failed"
        /\ refreshResult = "ok" => ~AuthFlowStarted

C1_Witness ==
    /\ LoadedExpiredWithRefresh
    /\ refreshResult = "failed"
    /\ webCalls = 1
    /\ pc = "returned"

\* C2: with an expired token without refresh credential, no refresh is ever
\* attempted and getClient goes from its tests straight into AuthFlow.
C2_NoRefreshWithoutCredential ==
    LoadedExpiredNoRefresh =>
        /\ refreshCalls = 0
        /\ refreshResult = "none"
        /\ pc # "refresh"
        /\ pc \notin {"load", "check"} => AuthFlowStarted

C2_Witness ==
    /\ LoadedExpiredNoRefresh
    /\ webCalls = 1
    /\ pc = "returned"

\* C3 (as claimed): after a failed refresh the process is never ended by the
\* refresh failure, and when getClient returns AuthFlow has run, the token
\* it returned is the content of token.json and is bound to the client.
C3_RefreshFailureRecovered ==
    refreshResult = "failed" =>
        /\ fatalAt \in {"", "exchange", "saveToken"}
        /\ pc = "returned" =>
              /\ webCalls = 1
              /\ client.access = "web"
              /\ file = FileOf(client)

\* C4: an unexpired loaded token is used as it is: no refresh, no AuthFlow,
\* no listener, no handler, no saveToken, token.json untouched, and the
\* client is bound to the loaded token.
C4_UnexpiredUsedAsIs ==
    LoadedUnexpired =>
        /\ refreshCalls = 0
        /\ ~AuthFlowStarted
        /\ server = "none"
        /\ handlers = 0
        /\ saveCalls = 0
        /\ file = file0
        /\ pc = "returned" => client = file0.tok

C4_Witness ==
    /\ LoadedUnexpired
    /\ pc = "returned"
    /\ client = file0.tok

\* C5 (as claimed): when tokenFromFile fails (file absent or undecodable),
\* no refresh is attempted, and when getClient returns AuthFlow has run and
\* the token it returned is the content of token.json and bound to the client.
C5_LoadFailureRunsAuthFlow ==
    ~Loaded =>
        /\ refreshCalls = 0
        /\ pc # "load" => (loadErr /\ AuthFlowStarted)
        /\ pc = "returned" =>
              /\ webCalls = 1
              /\ client.access = "web"
              /\ file = FileOf(client)

\* C6 (as claimed): a listener that failed to bind ends the process; main
\* is never waiting for a code while the listener has failed to start.
C6_BindFailureFatal ==
    server = "failed" => pc = "fatal"

\* C7: Exchange is called at most once, and once it has failed the process
\* is ended by that failure, saveToken was never called and token.json is
\* what it was at the start.
C7_ExchangeFailureFatal ==
    /\ exchangeCalls <= 1
    /\ exchangeResult = "failed" =>
          /\ pc = "fatal"
          /\ fatalAt = "exchange"
          /\ saveCalls = 0
          /\ file = file0

C7_Witness ==
    /\ exchangeResult = "failed"
    /\ pc = "fatal"
    /\ exchangeCalls = 1

\* The handlers whose channel send of line 47 has completed.
Senders == {i \in Requests : reqs[i].st = "sent" \/ reqs[i].resp = "complete"}
\* Main has received from codeCh in this run.
CodeReceived == webCalls > 0 /\ pc \notin {"web_serve", "web_url", "web_recv"}

\* C16 (as claimed): one write and one read per AuthFlow invocation, whatever
\* requests arrive, and once the code has been read no handler is blocked
\* on the channel send.
C16_OneShotHandoff ==
    /\ Cardinality(Senders) <= 1
    /\ CodeReceived => Cardinality(Senders) = 1
    /\ CodeReceived => \A i \in Requests : reqs[i].st # "sending"

\* C17: a request without code is answered "no code" and never sends; main
\* is past the receive only when some request with a non-empty code has
\* sent, authCode is that code, and the code given to Exchange is authCode.
C17_OnlyCodeUnblocks ==
    /\ \A i \in Requests :
          reqs[i].code = "" =>
              /\ i \notin Senders
              /\ reqs[i].st # "sending"
              /\ reqs[i].st = "done" => reqs[i].resp = "nocode"
    /\ Senders = {} => (pc \notin {"web_shutdown", "web_exchange"} /\ exchangeCalls = 0)
    /\ CodeReceived =>
          \E i \in Senders : reqs[i].code # "" /\ reqs[i].code = authCode
    /\ exchangeCalls > 0 =>
          \E i \in Senders : reqs[i].code # "" /\ reqs[i].code = exchangedCode

\* A request without code was answered, a later one carried the code.
C17_Witness ==
    /\ \E i \in Requests : reqs[i].resp = "nocode"
    /\ \E i \in Senders : reqs[i].code = "c2" /\ exchangedCode = "c2"
    /\ exchangeResult = "ok"

\* C18: from the exchange on, and while the token AuthFlow obtained is saved,
\* bound or used, the listener is closed.
C18_ListenerClosedBeforeExchange ==
    /\ (pc = "web_exchange" \/ exchangeCalls > 0) => server = "closed"
    /\ (webCalls > 0 /\ pc \in {"save", "client", "returned"}) => server = "closed"
    /\ (webCalls > 0 /\ (saveCalls > 0 \/ client # NoTok)) => server = "closed"

C18_Witness ==
    /\ webCalls = 1
    /\ exchangeResult = "ok"
    /\ server = "closed"
    /\ pc = "returned"
    /\ client.access = "web"

\* C19 (as claimed): when getClient has returned, token.json holds the token
\* bound to the client: the loaded one with the file untouched, or a new
\* one saved exactly once.
C19_ClientTokenIsPersisted ==
    pc = "returned" =>
        /\ file = FileOf(client)
        /\ \/ saveCalls = 0 /\ file = file0
           \/ saveCalls = 1

\* C20: getTokenFromWeb is entered at most once in a run, so "/" is
\* registered at most once and :8080 is bound at most once.
C20_AuthFlowAtMostOnce ==
    /\ webCalls <= 1
    /\ handlers <= 1
    /\ listens <= 1
    /\ handlers = webCalls

\* AuthFlow after a failed refresh, the longest path of getClient.
C20_Witness ==
    /\ refreshResult = "failed"
    /\ webCalls = 1 /\ handlers = 1 /\ listens = 1
    /\ pc = "returned"

\* =====================================================================
\* Properties of the time window (checked under SpecWindow)
\* =====================================================================

\* The Gregorian calendar, stated apart from package time.
GregorianLeap(y) == IF y % 400 = 0 THEN TRUE ELSE IF y % 100 = 0 THEN FALSE ELSE y % 4 = 0
GregorianLength(y, m) ==
    IF m \in {4, 6, 9, 11} THEN 30
    ELSE IF m = 2 THEN (IF GregorianLeap(y) THEN 29 ELSE 28)
    ELSE 31
RealDate(s) == s.kind = "ymd" /\ s.m \in 1..12 /\ s.d \in 1..GregorianLength(s.y, s.m)
RealMonth(s) == s.kind = "ym" /\ s.m \in 1..12

\* The day after a date, and the first day of the month after a month.
DayAfter(s) ==
    IF s.d < GregorianLength(s.y, s.m) THEN [y |-> s.y, m |-> s.m, d |-> s.d + 1]
    ELSE IF s.m < 12 THEN [y |-> s.y, m |-> s.m + 1, d |-> 1]
    ELSE [y |-> s.y + 1, m |-> 1, d |-> 1]
FirstOfNextMonth(s) ==
    IF s.m < 12 THEN [y |-> s.y, m |-> s.m + 1, d |-> 1]
    ELSE [y |-> s.y + 1, m |-> 1, d |-> 1]

\* D1 <= D2 as calendar dates.
NotAfter(a, b) ==
    \/ a.y < b.y
    \/ a.y = b.y /\ a.m < b.m
    \/ a.y = b.y /\ a.m = b.m /\ a.d <= b.d

\* Days from 1970-01-01 to a date, counted year by year and month by month.
RECURSIVE DaysOfYears(_)
DaysOfYears(y) ==
    IF y <= 1970 THEN 0
    ELSE DaysOfYears(y - 1) + (IF GregorianLeap(y - 1) THEN 366 ELSE 365)
RECURSIVE DaysOfMonths(_, _)
DaysOfMonths(y, m) ==
    IF m <= 1 THEN 0 ELSE DaysOfMonths(y, m - 1) + GregorianLength(y, m - 1)
EpochDay(c) == DaysOfYears(c.y) + DaysOfMonths(c.y, c.m) + (c.d - 1)

\* Local midnight of a date in the reference zone: as the RFC3339 string
\* and as the instant.
MidnightStamp(c) == [y |-> c.y, m |-> c.m, d |-> c.d, h |-> 0, off |-> 9]
MidnightInstant(c) == EpochDay(c) * 24 - 9

\* C8: with -start=D1 and -end=D2 parseable, D1 <= D2 and no -month, the
\* program reaches the query and the window it sends is
\* [D1 00:00, D2 + 1 day 00:00) at UTC+9.
C8_ExplicitWindow ==
    (monthStr = EmptyStr /\ RealDate(startDateStr) /\ RealDate(endDateStr)
       /\ NotAfter(startDateStr, endDateStr)) =>
        /\ wpc \in {"parse", "extend", "query", "queried"}
        /\ wpc = "queried" =>
              /\ timeMin = MidnightStamp(startDateStr)
              /\ timeMax = MidnightStamp(DayAfter(endDateStr))
              /\ startDate = MidnightInstant(startDateStr)
              /\ searchEndDate = MidnightInstant(DayAfter(endDateStr))

\* An explicit window whose end date closes a leap February.
C8_Witness ==
    /\ wpc = "queried"
    /\ monthStr = EmptyStr
    /\ RealDate(startDateStr) /\ RealDate(endDateStr)
    /\ NotAfter(startDateStr, endDateStr)
    /\ startDateStr # endDateStr
    /\ endDateStr.m = 2 /\ endDateStr.d = 29
    /\ timeMax.m = 3 /\ timeMax.d = 1

\* C9: with -month=YYYY-MM valid, the program reaches the query and the
\* window it sends is [first of the month 00:00, first of the next month
\* 00:00) at UTC+9.
C9_MonthWindow ==
    RealMonth(monthStr) =>
        /\ wpc \in {"parse", "extend", "query", "queried"}
        /\ wpc = "queried" =>
              LET first == [y |-> monthStr.y, m |-> monthStr.m, d |-> 1]
              IN  /\ timeMin = MidnightStamp(first)
                  /\ timeMax = MidnightStamp(FirstOfNextMonth(monthStr))
                  /\ startDate = MidnightInstant(first)
                  /\ searchEndDate = MidnightInstant(FirstOfNextMonth(monthStr))

\* A December window, which ends in the next year.
C9_Witness ==
    /\ wpc = "queried"
    /\ RealMonth(monthStr)
    /\ monthStr.m = 12
    /\ timeMax.y = monthStr.y + 1 /\ timeMax.m = 1 /\ timeMax.d = 1

\* C10 (as claimed): every window sent to the event query has end > start.
C10_WindowEndAfterStart ==
    wpc = "queried" => searchEndDate > startDate

\* =====================================================================
\* Properties of the aggregation (checked under SpecAgg)
\* =====================================================================

\* Names that differ at most in the case of their letters.
CaseVariants == {{"m", "M"}, {"p", "P"}}
SameLetter(c, d) == c = d \/ {c, d} \in CaseVariants
NamesAgree(a, b) == Len(a) = Len(b) /\ \A i \in 1..Len(a) : SameLetter(a[i], b[i])
\* Name a starts with name b, up to case, and is longer.
ExtendsName(a, b) ==
    Len(a) > Len(b) /\ \A i \in 1..Len(b) : SameLetter(a[i], b[i])

IsAllDay(e)   == e.start.kind = "empty"
WellFormed(s) == s.kind = "rfc"
Instant(s)    == s.wall - s.off
DurationOf(e) == Instant(e.end) - Instant(e.start)

\* Timed events with the target name: with good instants, and with a bad one.
Qualifies(e) ==
    ~IsAllDay(e) /\ NamesAgree(e.summary, eventName)
        /\ WellFormed(e.start) /\ WellFormed(e.end)
Malformed(e) ==
    ~IsAllDay(e) /\ NamesAgree(e.summary, eventName)
        /\ ~(WellFormed(e.start) /\ WellFormed(e.end))

RECURSIVE SumDurations(_)
SumDurations(q) ==
    IF q = <<>> THEN 0 ELSE DurationOf(Head(q)) + SumDurations(Tail(q))

RECURSIVE SumQualifying(_)
SumQualifying(n) ==
    IF n = 0 THEN 0
    ELSE SumQualifying(n - 1)
           + (IF Qualifies(items[n]) THEN DurationOf(items[n]) ELSE 0)

InMatched(e) == \E k \in 1..Len(matchedEvents) : matchedEvents[k] = e
AggDone == apc \in {"report", "exit0"}

\* C11: no all-day event is ever in the matched list, whatever its name,
\* and the total is the sum over the matched list alone.
C11_AllDayExcluded ==
    /\ \A k \in 1..Len(matchedEvents) : ~IsAllDay(matchedEvents[k])
    /\ \A k \in 1..idx : IsAllDay(items[k]) => ~InMatched(items[k])
    /\ totalDuration = SumDurations(matchedEvents)

C11_Witness ==
    /\ apc = "exit0"
    /\ \E k \in 1..Len(items) :
          IsAllDay(items[k]) /\ NamesAgree(items[k].summary, eventName)
    /\ Len(matchedEvents) = 1

\* C12: among the timed events with good instants, the matched ones are
\* exactly those whose whole name equals the target up to letter case.
C12_ExactCaseInsensitiveMatch ==
    \A k \in 1..idx :
        (~IsAllDay(items[k]) /\ WellFormed(items[k].start) /\ WellFormed(items[k].end))
            => (InMatched(items[k]) <=> NamesAgree(items[k].summary, eventName))

C12_Witness ==
    /\ apc = "exit0"
    /\ \E k \in 1..Len(matchedEvents) : matchedEvents[k].summary # eventName
    /\ \E k \in 1..Len(items) :
          /\ ExtendsName(items[k].summary, eventName)
          /\ ~IsAllDay(items[k]) /\ WellFormed(items[k].start) /\ WellFormed(items[k].end)
          /\ ~InMatched(items[k])

\* C13: the matched list is the subsequence, in input order, of the events
\* read so far that are timed, carry the name and have good instants, and
\* the total is the sum of end - start over that list.
C13_TotalAndMatchedList ==
    /\ matchedEvents = SelectSeq(SubSeq(items, 1, idx), Qualifies)
    /\ totalDuration = SumDurations(SelectSeq(SubSeq(items, 1, idx), Qualifies))

C13_Witness ==
    /\ apc = "exit0"
    /\ Len(matchedEvents) = 2
    /\ matchedEvents[1] # matchedEvents[2]
    /\ totalDuration # 0

\* C14: after the loop, no event with the name and a bad start or end is in
\* the matched list or in the total, one warning was printed for each, and
\* every event with the name and good instants is in the list and the total.
C14_MalformedSkippedOthersKept ==
    AggDone =>
        LET bad  == {k \in 1..Len(items) : Malformed(items[k])}
            good == {k \in 1..Len(items) : Qualifies(items[k])}
        IN  /\ \A k \in bad : ~InMatched(items[k])
            /\ \A k \in good : InMatched(items[k])
            /\ Len(matchedEvents) = Cardinality(good)
            /\ Len(warnings) = Cardinality(bad)
            /\ totalDuration = SumQualifying(Len(items))

\* Only the end instant is bad, and a good event follows.
C14_Witness ==
    /\ apc = "exit0"
    /\ Len(items) >= 2
    /\ Malformed(items[1]) /\ WellFormed(items[1].start) /\ ~WellFormed(items[1].end)
    /\ Qualifies(items[2])
    /\ matchedEvents = <<items[2]>>
    /\ totalDuration = DurationOf(items[2])

\* C15: when no event qualifies, the total stays 0, the matched list stays
\* empty, and main ends by printing the total 0:0 and the "no matches"
\* message and returning.
C15_NoMatches ==
    (\A k \in 1..Len(items) : ~Qualifies(items[k])) =>
        /\ totalDuration = 0
        /\ matchedEvents = <<>>
        /\ apc \in {"loop", "report", "exit0"}
        /\ AggDone => (report.hours = 0 /\ report.minutes = 0)
        /\ apc = "exit0" => (report.kind = "nomatch" /\ report.lines = <<>>)

C15_Witness ==
    /\ apc = "exit0"
    /\ Len(items) > 0
    /\ \A k \in 1..Len(items) : ~Qualifies(items[k])
    /\ report.kind = "nomatch"

====
